---- MODULE Spec2Model ----
(***************************************************************************)
(* Verification model of the tutoring front end "aristotle".               *)
(*                                                                         *)
(* Three React components hold the session logic:                          *)
(*   ExamSimulator          timed, pausable exam session                   *)
(*   AdaptivePracticeEngine ten-question practice session with adaptive    *)
(*                          difficulty and an asynchronous answer judge    *)
(*   AIPoweredWhiteboard    step log with AI validation and local fallback *)
(*                                                                         *)
(* A component's state is its useState cells.  An async handler is split   *)
(* at its awaits: the click captures the values of the render it was       *)
(* created in (the closure), the continuation applies them later.          *)
(***************************************************************************)
EXTENDS Integers, Sequences, FiniteSets, TLC

\* null, and an optional value that may be null
Null == <<>>
Some(x) == <<x>>
Val(o) == o[1]

\* ------------------------------------------------------------------------
\* Bounds of the model
\* ------------------------------------------------------------------------
\* longest exam of the scaled catalogue, in timer ticks (seconds)
MaxDuration == 3
\* most startExam calls whose question generation is still pending
MaxPendingStarts == 2
\* exam sessions created per run (session ids)
MaxExamSessions == 2
\* largest "marks" value a generated question payload carries
MaxPayloadMarks == 5

\* practice sessions created per run
MaxPracticeSessions == 2
\* submitAnswer calls of the practice engine whose continuation is pending
MaxInFlight == 2
\* practice answers handed in per run
MaxPracticeAttempts == 12
\* a submit issued while an earlier submitAnswer has not run to its end is
\* explored while the session holds fewer than MaxOverlapItem answers, and
\* later while the only pending call is one that was started that early and
\* still waits for the judgment service
MaxOverlapItem == 1
\* payloads that parse but are not a verdict object are explored for
\* evaluations started with fewer than MaxMalformedItem answers recorded
MaxMalformedItem == 1

\* steps of the whiteboard, recorded or being validated
MaxSteps == 3
\* step validations of the whiteboard whose continuation is pending
MaxStepValidations == 2

\* elapsed seconds a submit can measure
TimeSamples == {4}

\* ------------------------------------------------------------------------
\* Rationals n/d kept as records (accuracy and averageTime are JS floats)
\* ------------------------------------------------------------------------
Ratio(n, d) == [n |-> n, d |-> d]

\* ------------------------------------------------------------------------
\* State
\* ------------------------------------------------------------------------
VARIABLES
    \* ExamSimulator
    selectedExamType, examSession, currentQuestionIndex, examPhase,
    timeRemaining, isPaused, examQuestionStartTime, pendingStarts,
    timerSession, examSessionsStarted,
    \* AdaptivePracticeEngine
    selectedTopic, questionType, practiceSession, currentQuestion,
    practiceQuestionStartTime, sessionPhase, difficulty, performance,
    firstQuestions, evaluations, practiceSessionsStarted, practiceAttempts,
    \* AIPoweredWhiteboard
    question, steps, showExplanation, stepValidations

examVars == <<selectedExamType, examSession, currentQuestionIndex, examPhase,
              timeRemaining, isPaused, examQuestionStartTime, pendingStarts,
              timerSession, examSessionsStarted>>

practiceVars == <<selectedTopic, questionType, practiceSession,
                  currentQuestion, practiceQuestionStartTime, sessionPhase,
                  difficulty, performance, firstQuestions, evaluations,
                  practiceSessionsStarted, practiceAttempts>>

whiteboardVars == <<question, steps, showExplanation, stepValidations>>

vars == <<examVars, practiceVars, whiteboardVars>>

\* ========================================================================
\* ExamSimulator
\* ========================================================================

\* The catalogue, scaled: duration is already in seconds (duration * 60 in
\* the source), question counts and marks are small.
EXAM_TYPES ==
    { [id |-> "unit-test",  duration |-> MaxDuration - 1, totalMarks |-> 4,
       questionCount |-> 2, topic |-> "Quadratic Equations"],
      [id |-> "final-exam", duration |-> MaxDuration, totalMarks |-> 8,
       questionCount |-> 4, topic |-> "All Topics"] }

ExamTypeById(id) == CHOOSE t \in EXAM_TYPES : t.id = id

\* questionType of question i (0-based): i < questionCount * 0.7 ? mcq : written
QuestionTypeAt(i, examType) ==
    IF 10 * i < 7 * examType.questionCount THEN "mcq" ELSE "written"

getFallbackQuestion(index, type, examType) ==
    [id |-> index + 1, type |-> type,
     marks |-> IF type = "mcq" THEN 1 ELSE 3,
     topic |-> examType.topic]

\* a question built from a parsed payload: marks: questionData.marks || 2
PayloadQuestion(index, type, examType, payloadMarks) ==
    [id |-> index + 1, type |-> type,
     marks |-> IF payloadMarks = 0 THEN 2 ELSE payloadMarks,
     topic |-> examType.topic]

\* the marks a payload may carry; 0 stands for an absent or falsy field
PayloadMarksValues == {0, MaxPayloadMarks}

\* the question lists generateExamQuestions returns that the model
\* enumerates: every question from getFallbackQuestion (responses not ok or
\* not parseable), or every question from a parsed payload, the payloads of
\* one call carrying the same marks field
generateExamQuestions(examType) ==
    LET n == examType.questionCount
    IN { [k \in 1..n |->
            getFallbackQuestion(k - 1, QuestionTypeAt(k - 1, examType),
                                examType)] }
       \cup
       { [k \in 1..n |->
            PayloadQuestion(k - 1, QuestionTypeAt(k - 1, examType),
                            examType, m)] : m \in PayloadMarksValues }

\* the dependency-driven timer effect: the interval exists, and its callback
\* holds the session of the render that created it, exactly when
\* examPhase = 'exam', timeRemaining > 0 and not paused; it is recreated
\* only when one of the three dependencies changed.
TimerEffect(phase2, time2, paused2, session2) ==
    IF <<phase2, time2, paused2>> = <<examPhase, timeRemaining, isPaused>>
    THEN timerSession
    ELSE IF phase2 = "exam" /\ time2 > 0 /\ ~paused2 THEN session2 ELSE Null

\* the exam view throws while rendering when the index is past the list
ExamCrashed ==
    /\ examPhase = "exam" /\ examSession # Null
    /\ currentQuestionIndex >= Len(Val(examSession).questions)

ExamViewRendered ==
    /\ examPhase = "exam" /\ examSession # Null /\ ~ExamCrashed

InitExam ==
    /\ selectedExamType = "none"
    /\ examSession = Null
    /\ currentQuestionIndex = 0
    /\ examPhase = "setup"
    /\ timeRemaining = 0
    /\ isPaused = FALSE
    /\ examQuestionStartTime = "unset"
    /\ pendingStarts = <<>>
    /\ timerSession = Null
    /\ examSessionsStarted = 0

SelectExamType(t) ==
    /\ examPhase = "setup"
    /\ selectedExamType' = t.id
    /\ UNCHANGED <<examSession, currentQuestionIndex, examPhase, timeRemaining,
                   isPaused, examQuestionStartTime, pendingStarts, timerSession,
                   examSessionsStarted>>
    /\ UNCHANGED <<practiceVars, whiteboardVars>>

\* startExam up to its await: the selected type is captured
StartExam ==
    /\ examPhase = "setup"
    /\ selectedExamType # "none"
    /\ Len(pendingStarts) < MaxPendingStarts
    /\ Len(pendingStarts) + examSessionsStarted < MaxExamSessions
    /\ pendingStarts' = Append(pendingStarts, ExamTypeById(selectedExamType))
    /\ UNCHANGED <<selectedExamType, examSession, currentQuestionIndex,
                   examPhase, timeRemaining, isPaused, examQuestionStartTime,
                   timerSession, examSessionsStarted>>
    /\ UNCHANGED <<practiceVars, whiteboardVars>>

RemoveAt(s, i) == [k \in 1..(Len(s) - 1) |-> IF k < i THEN s[k] ELSE s[k + 1]]

NewExamSession(id, examType, questions) ==
    [id |-> id, examType |-> examType.id, questions |-> questions,
     answers |-> <<>>, ended |-> FALSE,
     performance |-> [totalMarks |-> examType.totalMarks, obtainedMarks |-> 0,
                      accuracy |-> Ratio(0, 1), averageTime |-> Ratio(0, 1),
                      timeManagement |-> 0, topicPerformance |-> <<>>]]

\* startExam after generateExamQuestions resolved
StartExamResolve(i, questions) ==
    /\ i \in 1..Len(pendingStarts)
    /\ ~ExamCrashed
    /\ questions \in generateExamQuestions(pendingStarts[i])
    /\ LET session == NewExamSession(examSessionsStarted + 1, pendingStarts[i],
                                     questions)
       IN /\ examSession' = Some(session)
          /\ examPhase' = "exam"
          /\ timeRemaining' = pendingStarts[i].duration
          /\ examQuestionStartTime' = "set"
          /\ timerSession' = TimerEffect("exam", pendingStarts[i].duration,
                                         isPaused, Some(session))
    /\ pendingStarts' = RemoveAt(pendingStarts, i)
    /\ examSessionsStarted' = examSessionsStarted + 1
    /\ UNCHANGED <<selectedExamType, currentQuestionIndex, isPaused>>
    /\ UNCHANGED <<practiceVars, whiteboardVars>>

\* endExam that recomputes accuracy over the answered items: with an empty
\* log this is 0 / 0
endExamAccuracyOverAnswered(session) ==
    IF session = Null THEN [session |-> examSession, phase |-> examPhase]
    ELSE [session |->
              Some([Val(session) EXCEPT
                      !.ended = TRUE,
                      !.performance.accuracy =
                          Ratio(Val(session).performance.obtainedMarks,
                                Len(Val(session).answers))]),
          phase |-> "completed"]

\* endExam as called from a closure that holds `session`
endExamFrom(session) ==
    IF session = Null THEN [session |-> examSession, phase |-> examPhase]
    ELSE [session |-> Some([Val(session) EXCEPT !.ended = TRUE]),
          phase |-> "completed"]

\* Tick with the isPaused test of the effect's condition left out
TickIgnoringPause ==
    /\ examPhase = "exam" /\ timeRemaining > 0
    /\ ~ExamCrashed
    /\ timeRemaining' = timeRemaining - 1
    /\ IF timeRemaining <= 1
       THEN /\ examSession' = endExamFrom(examSession).session
            /\ examPhase' = "completed"
       ELSE UNCHANGED <<examSession, examPhase>>
    /\ timerSession' = TimerEffect(examPhase', timeRemaining', isPaused,
                                   examSession')
    /\ UNCHANGED <<selectedExamType, currentQuestionIndex, isPaused,
                   examQuestionStartTime, pendingStarts, examSessionsStarted>>
    /\ UNCHANGED <<practiceVars, whiteboardVars>>

\* Tick whose expiry branch forgets to call endExam()
TickWithoutEndExam ==
    /\ examPhase = "exam" /\ timeRemaining > 0 /\ ~isPaused
    /\ ~ExamCrashed
    /\ timeRemaining' = timeRemaining - 1
    /\ timerSession' = TimerEffect(examPhase, timeRemaining - 1, isPaused,
                                   examSession)
    /\ UNCHANGED <<examSession, examPhase, selectedExamType,
                   currentQuestionIndex, isPaused, examQuestionStartTime,
                   pendingStarts, examSessionsStarted>>
    /\ UNCHANGED <<practiceVars, whiteboardVars>>

\* one firing of the one-second interval
Tick ==
    /\ examPhase = "exam" /\ timeRemaining > 0 /\ ~isPaused
    /\ ~ExamCrashed
    /\ IF timeRemaining <= 1
       THEN LET e == endExamFrom(timerSession)
            IN /\ examSession' = e.session
               /\ examPhase' = e.phase
               /\ timeRemaining' = 0
               /\ timerSession' = TimerEffect(e.phase, 0, isPaused, e.session)
       ELSE /\ timeRemaining' = timeRemaining - 1
            /\ timerSession' = TimerEffect(examPhase, timeRemaining - 1,
                                           isPaused, examSession)
            /\ UNCHANGED <<examSession, examPhase>>
    /\ UNCHANGED <<selectedExamType, currentQuestionIndex, isPaused,
                   examQuestionStartTime, pendingStarts, examSessionsStarted>>
    /\ UNCHANGED <<practiceVars, whiteboardVars>>

\* the Pause / Resume button: setIsPaused(!isPaused)
TogglePause ==
    /\ ExamViewRendered
    /\ isPaused' = ~isPaused
    /\ timerSession' = TimerEffect(examPhase, timeRemaining, ~isPaused,
                                   examSession)
    /\ UNCHANGED <<selectedExamType, examSession, currentQuestionIndex,
                   examPhase, timeRemaining, examQuestionStartTime,
                   pendingStarts, examSessionsStarted>>
    /\ UNCHANGED <<practiceVars, whiteboardVars>>

\* what the student can hand in: for mcq the chosen option, for written a text
ExamAnswers == {"right", "wrong"}

\* isCorrect of submitAnswer; rnd is Math.random() > 0.5
ExamIsCorrect(item, answer, rnd) ==
    IF item.type = "mcq" THEN answer = "right"
    ELSE (answer = "right") \/ rnd

ExamAverage(avg, timeSpent) == Ratio(avg.n + timeSpent * avg.d, 2 * avg.d)

\* submitAnswer: updatedSession
ExamUpdatedSession(session, item, answer, timeSpent, isCorrect) ==
    LET marksObtained == IF isCorrect THEN item.marks ELSE 0
        perf == session.performance
    IN [session EXCEPT
          !.answers = Append(@, [questionId |-> item.id, answer |-> answer,
                                 timeSpent |-> timeSpent, isCorrect |-> isCorrect,
                                 marksObtained |-> marksObtained]),
          !.performance =
              [perf EXCEPT
                 !.obtainedMarks = @ + marksObtained,
                 !.accuracy = Ratio(perf.obtainedMarks + marksObtained,
                                    perf.totalMarks),
                 !.averageTime = ExamAverage(@, timeSpent)]]

\* submitAnswer; there is no check of isPaused
ExamSubmitAnswer(answer, timeSpent, rnd) ==
    /\ ExamViewRendered
    /\ examQuestionStartTime # "unset"
    /\ LET item == Val(examSession).questions[currentQuestionIndex + 1]
           isCorrect == ExamIsCorrect(item, answer, rnd)
           updated == Some(ExamUpdatedSession(Val(examSession), item,
                                              answer, timeSpent, isCorrect))
       IN IF currentQuestionIndex < Len(Val(examSession).questions) - 1
          THEN /\ examSession' = updated
               /\ currentQuestionIndex' = currentQuestionIndex + 1
               /\ examQuestionStartTime' = "set"
               /\ timerSession' = TimerEffect(examPhase, timeRemaining,
                                              isPaused, updated)
               /\ UNCHANGED examPhase
          ELSE \* setCurrentSession(updatedSession) is overwritten in the same
               \* batch by endExam(), which spreads the render's currentSession
               LET e == endExamFrom(examSession)
               IN /\ examSession' = e.session
                  /\ examPhase' = e.phase
                  /\ timerSession' = TimerEffect(e.phase, timeRemaining,
                                                 isPaused, e.session)
                  /\ UNCHANGED <<currentQuestionIndex, examQuestionStartTime>>
    /\ UNCHANGED <<selectedExamType, timeRemaining, isPaused, pendingStarts,
                   examSessionsStarted>>
    /\ UNCHANGED <<practiceVars, whiteboardVars>>

\* the "Take Another Exam" button of the results view
TakeAnotherExam ==
    /\ examPhase = "completed" /\ examSession # Null
    /\ examPhase' = "setup"
    /\ examSession' = Null
    /\ currentQuestionIndex' = 0
    /\ selectedExamType' = "none"
    /\ timerSession' = TimerEffect("setup", timeRemaining, isPaused, Null)
    /\ UNCHANGED <<timeRemaining, isPaused, examQuestionStartTime,
                   pendingStarts, examSessionsStarted>>
    /\ UNCHANGED <<practiceVars, whiteboardVars>>

NextExam ==
    \/ \E t \in EXAM_TYPES : SelectExamType(t)
    \/ StartExam
    \/ \E i \in 1..MaxPendingStarts :
          \E t \in EXAM_TYPES : \E qs \in generateExamQuestions(t) :
              StartExamResolve(i, qs)
    \/ Tick
    \/ TogglePause
    \/ \E a \in ExamAnswers, t \in TimeSamples, rnd \in BOOLEAN :
          ExamSubmitAnswer(a, t, rnd)
    \/ TakeAnotherExam

\* ========================================================================
\* AdaptivePracticeEngine
\* ========================================================================

\* if (updatedSession.performance.totalQuestions >= 10)
SessionLength == 10

GRADE_11_MATH_TOPICS == {"quadratic-equations"}

\* generateQuestion: the LLM path and getFallbackQuestion both return a
\* question that carries the difficulty it was asked for
generateQuestion(topic, diff, type) ==
    [topic |-> topic, difficulty |-> diff, type |-> type]

PracticeViewRendered == sessionPhase = "practicing" /\ currentQuestion # Null

InitPractice ==
    /\ selectedTopic = "none"
    /\ questionType = "mcq"
    /\ practiceSession = Null
    /\ currentQuestion = Null
    /\ practiceQuestionStartTime = "unset"
    /\ sessionPhase = "setup"
    /\ difficulty = "easy"
    /\ performance = [correct |-> 0, total |-> 0, averageTime |-> Ratio(0, 1),
                      currentStreak |-> 0]
    /\ firstQuestions = <<>>
    /\ evaluations = <<>>
    /\ practiceSessionsStarted = 0
    /\ practiceAttempts = 0

SelectTopic(t) ==
    /\ sessionPhase = "setup"
    /\ selectedTopic' = t
    /\ UNCHANGED <<questionType, practiceSession, currentQuestion,
                   practiceQuestionStartTime, sessionPhase, difficulty,
                   performance, firstQuestions, evaluations,
                   practiceSessionsStarted, practiceAttempts>>
    /\ UNCHANGED <<examVars, whiteboardVars>>

SetQuestionType(qt) ==
    /\ sessionPhase = "setup"
    /\ questionType' = qt
    /\ UNCHANGED <<selectedTopic, practiceSession, currentQuestion,
                   practiceQuestionStartTime, sessionPhase, difficulty,
                   performance, firstQuestions, evaluations,
                   practiceSessionsStarted, practiceAttempts>>
    /\ UNCHANGED <<examVars, whiteboardVars>>

NewPracticeSession(id, topic, qt) ==
    [id |-> id, topic |-> topic, questionType |-> qt, ended |-> FALSE,
     questions |-> <<>>, answers |-> <<>>,
     performance |-> [totalQuestions |-> 0, correctAnswers |-> 0,
                      averageTime |-> Ratio(0, 1), accuracy |-> Ratio(0, 1),
                      difficultyProgression |-> <<>>]]

\* startSession up to its await; the call of generateQuestion has read the
\* render's difficulty
startSession ==
    /\ sessionPhase = "setup"
    /\ selectedTopic # "none"
    /\ practiceSessionsStarted < MaxPracticeSessions
    /\ practiceSession' = Some(NewPracticeSession(practiceSessionsStarted + 1,
                                                  selectedTopic, questionType))
    /\ sessionPhase' = "practicing"
    /\ firstQuestions' =
          Append(firstQuestions,
                 generateQuestion(selectedTopic, difficulty, questionType))
    /\ practiceSessionsStarted' = practiceSessionsStarted + 1
    /\ UNCHANGED <<selectedTopic, questionType, currentQuestion,
                   practiceQuestionStartTime, difficulty, performance,
                   evaluations, practiceAttempts>>
    /\ UNCHANGED <<examVars, whiteboardVars>>

\* startSession after generateQuestion resolved
FirstQuestionResolve(i) ==
    /\ i \in 1..Len(firstQuestions)
    /\ currentQuestion' = Some(firstQuestions[i])
    /\ practiceQuestionStartTime' = "set"
    /\ firstQuestions' = RemoveAt(firstQuestions, i)
    /\ UNCHANGED <<selectedTopic, questionType, practiceSession, sessionPhase,
                   difficulty, performance, evaluations,
                   practiceSessionsStarted, practiceAttempts>>
    /\ UNCHANGED <<examVars, whiteboardVars>>

PracticeAnswers == {"right", "wrong"}

\* submitAnswer up to `await validateAnswer`: the continuation keeps the
\* render's currentSession, currentQuestion, difficulty and performance
PracticeSubmitAnswer(answer, timeSpent) ==
    /\ PracticeViewRendered
    /\ practiceSession # Null
    /\ practiceQuestionStartTime # "unset"
    /\ Len(evaluations) < MaxInFlight
    /\ practiceAttempts < MaxPracticeAttempts
    /\ Len(evaluations) > 0
       => \/ Len(Val(practiceSession).answers) < MaxOverlapItem
          \/ /\ Len(evaluations) = 1
             /\ evaluations[1].pc = "validating"
             /\ Len(evaluations[1].session.answers) < MaxOverlapItem
    /\ evaluations' =
          Append(evaluations,
                 [pc |-> "validating", session |-> Val(practiceSession),
                  question |-> Val(currentQuestion), difficulty |-> difficulty,
                  streak |-> performance.currentStreak, answer |-> answer,
                  timeSpent |-> timeSpent, topic |-> selectedTopic,
                  questionType |-> questionType])
    /\ practiceAttempts' = practiceAttempts + 1
    /\ UNCHANGED <<selectedTopic, questionType, practiceSession,
                   currentQuestion, practiceQuestionStartTime, sessionPhase,
                   difficulty, performance, firstQuestions,
                   practiceSessionsStarted>>
    /\ UNCHANGED <<examVars, whiteboardVars>>

\* what the judgment service can do with one validateAnswer call:
\*   "true", "false"  a payload that parses to an object with that isCorrect
\*   "noField"        a payload that parses to a value without isCorrect
\*   "nullPayload"    a payload that parses to the JSON value null
\*   "failed"         HTTP error, network failure or text that is not JSON
JudgeOutcomes == {"true", "false", "noField", "nullPayload", "failed"}

\* the catch branch of validateAnswer
PracticeFallbackIsCorrect(item, answer) ==
    IF answer = "right" THEN "true" ELSE "false"

\* validateAnswer: the isCorrect of the value it resolves to
validateAnswer(item, answer, outcome) ==
    CASE outcome = "true" -> "true"
      [] outcome = "false" -> "false"
      [] outcome = "noField" -> "undefined"
      [] OTHER -> PracticeFallbackIsCorrect(item, answer)

PracticeAverage(avg, timeSpent) == Ratio(avg.n + timeSpent * avg.d, 2 * avg.d)

\* submitAnswer: updatedSession, built from the continuation's values
PracticeUpdatedSession(e, isCorrect) ==
    LET perf == e.session.performance
        inc == IF isCorrect = "true" THEN 1 ELSE 0
    IN [e.session EXCEPT
          !.questions = Append(@, e.question),
          \* the answer text is kept in the continuation only
          !.answers = Append(@, [isCorrect |-> isCorrect,
                                 timeSpent |-> e.timeSpent,
                                 difficulty |-> e.difficulty]),
          !.performance =
              [totalQuestions |-> perf.totalQuestions + 1,
               correctAnswers |-> perf.correctAnswers + inc,
               averageTime |-> PracticeAverage(perf.averageTime, e.timeSpent),
               accuracy |-> Ratio(perf.correctAnswers + inc,
                                  perf.totalQuestions + 1),
               difficultyProgression |->
                   Append(perf.difficultyProgression, e.difficulty)]]

\* accuracy > 80 / accuracy < 60, accuracy being (n / d) * 100
Above(r, percent) == 100 * r.n > percent * r.d
Below(r, percent) == 100 * r.n < percent * r.d

\* AdaptDifficulty with the lower threshold written as 70
AdaptDifficultyLowerAt70(accuracy, closureDifficulty, current) ==
    IF Above(accuracy, 80) /\ closureDifficulty # "advanced" THEN "advanced"
    ELSE IF Below(accuracy, 70) /\ closureDifficulty # "easy" THEN "easy"
    ELSE current

\* the difficulty state after "Adapt difficulty based on performance";
\* closureDifficulty is the continuation's difficulty, current the state
AdaptDifficulty(accuracy, closureDifficulty, current) ==
    IF Above(accuracy, 80) /\ closureDifficulty # "advanced" THEN "advanced"
    ELSE IF Below(accuracy, 60) /\ closureDifficulty # "easy" THEN "easy"
    ELSE current

\* submitAnswer from the return of validateAnswer to its next await or end
PracticeValidationReturns(i, outcome) ==
    /\ i \in 1..Len(evaluations)
    /\ evaluations[i].pc = "validating"
    /\ outcome \in JudgeOutcomes
    /\ outcome \in {"noField", "nullPayload"}
       => Len(evaluations[i].session.answers) < MaxMalformedItem
    /\ LET e == evaluations[i]
           isCorrect == validateAnswer(e.question, e.answer, outcome)
           updated == PracticeUpdatedSession(e, isCorrect)
       IN IF outcome = "nullPayload"
          THEN \* validation is null: reading validation.isCorrect throws and
               \* the continuation ends without a state update
               /\ evaluations' = RemoveAt(evaluations, i)
               /\ UNCHANGED <<practiceSession, performance, difficulty,
                              sessionPhase>>
          ELSE /\ performance' =
                     [correct |-> updated.performance.correctAnswers,
                      total |-> updated.performance.totalQuestions,
                      averageTime |-> updated.performance.averageTime,
                      currentStreak |->
                          IF isCorrect = "true" THEN e.streak + 1 ELSE 0]
               /\ difficulty' = AdaptDifficulty(updated.performance.accuracy,
                                                e.difficulty, difficulty)
               /\ IF updated.performance.totalQuestions >= SessionLength
                  THEN \* endSession(updatedSession)
                       /\ practiceSession' =
                             Some([updated EXCEPT !.ended = TRUE])
                       /\ sessionPhase' = "completed"
                       /\ evaluations' = RemoveAt(evaluations, i)
                  ELSE /\ practiceSession' = Some(updated)
                       /\ evaluations' =
                             [evaluations EXCEPT ![i].pc = "generating"]
                       /\ UNCHANGED sessionPhase
    /\ UNCHANGED <<selectedTopic, questionType, currentQuestion,
                   practiceQuestionStartTime, firstQuestions,
                   practiceSessionsStarted, practiceAttempts>>
    /\ UNCHANGED <<examVars, whiteboardVars>>

\* submitAnswer after `await generateQuestion(selectedTopic!.id, difficulty,
\* questionType)`: the arguments are the continuation's values
NextQuestionResolve(i) ==
    /\ i \in 1..Len(evaluations)
    /\ evaluations[i].pc = "generating"
    /\ LET e == evaluations[i]
       IN currentQuestion' =
             Some(generateQuestion(e.topic, e.difficulty, e.questionType))
    /\ practiceQuestionStartTime' = "set"
    /\ evaluations' = RemoveAt(evaluations, i)
    /\ UNCHANGED <<selectedTopic, questionType, practiceSession, sessionPhase,
                   difficulty, performance, firstQuestions,
                   practiceSessionsStarted, practiceAttempts>>
    /\ UNCHANGED <<examVars, whiteboardVars>>

\* the "Practice Again" button of the results view
PracticeAgain ==
    /\ sessionPhase = "completed" /\ practiceSession # Null
    /\ sessionPhase' = "setup"
    /\ practiceSession' = Null
    /\ performance' = [correct |-> 0, total |-> 0, averageTime |-> Ratio(0, 1),
                       currentStreak |-> 0]
    /\ UNCHANGED <<selectedTopic, questionType, currentQuestion,
                   practiceQuestionStartTime, difficulty, firstQuestions,
                   evaluations, practiceSessionsStarted, practiceAttempts>>
    /\ UNCHANGED <<examVars, whiteboardVars>>

\* the "Choose Different Topic" button of the results view
ChooseDifferentTopic ==
    /\ sessionPhase = "completed" /\ practiceSession # Null
    /\ sessionPhase' = "setup"
    /\ practiceSession' = Null
    /\ selectedTopic' = "none"
    /\ performance' = [correct |-> 0, total |-> 0, averageTime |-> Ratio(0, 1),
                       currentStreak |-> 0]
    /\ UNCHANGED <<questionType, currentQuestion, practiceQuestionStartTime,
                   difficulty, firstQuestions, evaluations,
                   practiceSessionsStarted, practiceAttempts>>
    /\ UNCHANGED <<examVars, whiteboardVars>>

NextPractice ==
    \/ \E t \in GRADE_11_MATH_TOPICS : SelectTopic(t)
    \/ \E qt \in {"mcq", "written"} : SetQuestionType(qt)
    \/ startSession
    \/ \E i \in 1..MaxPracticeSessions : FirstQuestionResolve(i)
    \/ \E a \in PracticeAnswers, t \in TimeSamples : PracticeSubmitAnswer(a, t)
    \/ \E i \in 1..MaxInFlight, o \in JudgeOutcomes :
          PracticeValidationReturns(i, o)
    \/ \E i \in 1..MaxInFlight : NextQuestionResolve(i)
    \/ PracticeAgain
    \/ ChooseDifferentTopic

\* ========================================================================
\* AIPoweredWhiteboard
\* ========================================================================

\* the question text: empty, or the worked example "2x = 7 - (4)^2 + 16"
\* that validateStep knows
QuestionTexts == {"blank", "example"}

\* what the student writes as a step: only white space; fewer than three
\* characters; the three texts validateStep knows for the example; other text
StepTexts == {"blank", "short", "2x = 7 - 16 + 16", "2x = 9",
              "2x = 7 + 16 + 16", "other"}

Verdict(isCorrect, errorType) == [isCorrect |-> isCorrect, errorType |-> errorType]

\* an entry of steps: the validation it carries, and two fields the code does
\* not store, kept for the properties: which path produced the validation
\*   "oracle"     the parsed payload of the judgment service
\*   "inferred"   the lexical test on a reply that did not parse
\*   "heuristic"  validateStep
\*   "fallback"   the constant result of the OCR fallback
\* and whether the handler that recorded it called setShowExplanation(true)
Step(validation, confidence, triggered) ==
    [isCorrect |-> validation.isCorrect, errorType |-> validation.errorType,
     confidence |-> confidence, triggered |-> triggered]

\* validateStep: the local rule set
validateStep(step, questionText) ==
    IF questionText = "example" /\ step = "2x = 7 - 16 + 16"
    THEN Verdict("true", "none")
    ELSE IF questionText = "example" /\ step = "2x = 9"
    THEN Verdict("false", "calculation")
    ELSE IF questionText = "example" /\ step = "2x = 7 + 16 + 16"
    THEN Verdict("false", "conceptual")
    ELSE IF step = "short"
    THEN Verdict("false", "syntax")
    ELSE Verdict("true", "none")

\* the payloads that parsed to an object, by their isCorrect and errorType
\* fields; "undefined" is an absent field and "tangent" a value outside the
\* three the prompt names
JudgePayloads ==
    { [isCorrect |-> "true", errorType |-> "undefined"],
      [isCorrect |-> "false", errorType |-> "conceptual"],
      [isCorrect |-> "false", errorType |-> "tangent"],
      [isCorrect |-> "undefined", errorType |-> "undefined"] }

\* texts that do not parse as JSON, by what the lexical test sees in them
ReplyTexts == {"correct", "incorrect", "wrong"}

\* what one call of the judgment service can lead to
\*   payload  the reply parsed to an object with these two fields
\*   null     the reply parsed to the JSON value null
\*   text     the reply did not parse
\*   failed   no API key, network failure or HTTP error: the call throws
JudgeReplies ==
    { [kind |-> "payload", isCorrect |-> p.isCorrect,
       errorType |-> p.errorType, text |-> "json"] : p \in JudgePayloads }
    \cup [kind : {"null"}, isCorrect : {"undefined"},
          errorType : {"undefined"}, text : {"null"}]
    \cup [kind : {"text"}, isCorrect : {"undefined"},
          errorType : {"undefined"}, text : ReplyTexts]
    \cup [kind : {"failed"}, isCorrect : {"undefined"},
          errorType : {"undefined"}, text : {"none"}]

\* resultText.toLowerCase().includes('correct') || ...includes('right')
LexicalIsCorrect(text) == text \in {"correct", "incorrect"}

\* validateStepWithAI when it returns: result.isCorrect || false,
\* result.errorType || null, or the inference from the text (also taken for
\* a null payload: reading result.isCorrect throws inside the inner try)
validateStepWithAI(reply) ==
    IF reply.kind = "payload"
    THEN Verdict(IF reply.isCorrect = "undefined" THEN "false"
                 ELSE reply.isCorrect,
                 IF reply.errorType = "undefined" THEN "none"
                 ELSE reply.errorType)
    ELSE IF LexicalIsCorrect(reply.text) THEN Verdict("true", "none")
    ELSE Verdict("false", "calculation")

InitWhiteboard ==
    /\ question = "blank"
    /\ steps = <<>>
    /\ showExplanation = FALSE
    /\ stepValidations = <<>>

SetQuestion(text) ==
    /\ question' = text
    /\ UNCHANGED <<steps, showExplanation, stepValidations>>
    /\ UNCHANGED <<examVars, practiceVars>>

\* handleStepValidation up to `await validateStepWithAI`; the continuation
\* keeps the render's currentStep and question (its steps only feed the
\* prompt).  `overtaken` records for the properties that Reset was pressed
\* while the continuation was pending.
handleStepValidation(step) ==
    /\ step # "blank"
    /\ Len(stepValidations) < MaxStepValidations
    /\ Len(steps) + Len(stepValidations) < MaxSteps
    /\ stepValidations' =
          Append(stepValidations,
                 [kind |-> "typed", step |-> step, question |-> question,
                  conceptualErrors |-> 0, overtaken |-> FALSE,
                  hung |-> FALSE])
    /\ UNCHANGED <<question, steps, showExplanation>>
    /\ UNCHANGED <<examVars, practiceVars>>

\* StepValidationReturns whose catch branch, after recording the verdict of
\* validateStep, calls validateStepWithAI again: after a failed call the
\* evaluation stays pending
StepValidationRetries(i, reply) ==
    /\ i \in 1..Len(stepValidations)
    /\ stepValidations[i].kind = "typed"
    /\ ~stepValidations[i].hung
    /\ reply \in JudgeReplies
    /\ LET v == stepValidations[i]
       IN IF reply.kind = "failed"
          THEN /\ steps' = Append(steps,
                                  Step(validateStep(v.step, v.question),
                                       "heuristic", FALSE))
               /\ UNCHANGED stepValidations
          ELSE /\ steps' = Append(steps,
                                  Step(validateStepWithAI(reply),
                                       IF reply.kind = "payload" THEN "oracle"
                                       ELSE "inferred", FALSE))
               /\ stepValidations' = RemoveAt(stepValidations, i)
    /\ UNCHANGED <<question, showExplanation>>
    /\ UNCHANGED <<examVars, practiceVars>>

\* handleStepValidation from the return of validateStepWithAI:
\* setSteps(prev => [...prev, newStep]) in the try and in the catch branch
StepValidationReturns(i, reply) ==
    /\ i \in 1..Len(stepValidations)
    /\ stepValidations[i].kind = "typed"
    /\ ~stepValidations[i].hung
    /\ reply \in JudgeReplies
    /\ LET v == stepValidations[i]
           validation == IF reply.kind = "failed"
                         THEN validateStep(v.step, v.question)
                         ELSE validateStepWithAI(reply)
           confidence == IF reply.kind = "failed" THEN "heuristic"
                         ELSE IF reply.kind = "payload" THEN "oracle"
                         ELSE "inferred"
       IN steps' = Append(steps, Step(validation, confidence, FALSE))
    /\ stepValidations' = RemoveAt(stepValidations, i)
    /\ UNCHANGED <<question, showExplanation>>
    /\ UNCHANGED <<examVars, practiceVars>>

\* steps.filter(s => s.validation?.errorType === 'conceptual').length
conceptualErrors(log) ==
    Cardinality({k \in 1..Len(log) : log[k].errorType = "conceptual"})

\* handleHandwrittenStepSubmit up to `await validateHandwrittenStepWithVLM`;
\* of the render's steps the continuation reads the number of conceptual
\* errors (its question only feeds the prompt)
handleHandwrittenStepSubmit ==
    /\ Len(stepValidations) < MaxStepValidations
    /\ Len(steps) + Len(stepValidations) < MaxSteps
    /\ stepValidations' =
          Append(stepValidations,
                 [kind |-> "handwritten", step |-> "image",
                  question |-> "blank",
                  conceptualErrors |-> conceptualErrors(steps),
                  overtaken |-> FALSE, hung |-> FALSE])
    /\ UNCHANGED <<question, steps, showExplanation>>
    /\ UNCHANGED <<examVars, practiceVars>>

\* the result handleHandwrittenStepSubmit works with: the parsed reply of
\* the vision model as it is, or the OCR fallback object when the call threw
HandwrittenResult(reply) ==
    IF reply.kind = "payload"
    THEN Verdict(reply.isCorrect,
                 IF reply.errorType = "undefined" THEN "none"
                 ELSE reply.errorType)
    ELSE Verdict("false", "ocr-fallback")

\* handleHandwrittenStepSubmit from the return of the vision model
HandwrittenStepReturns(i, reply) ==
    /\ i \in 1..Len(stepValidations)
    /\ stepValidations[i].kind = "handwritten"
    /\ ~stepValidations[i].hung
    /\ reply \in JudgeReplies
    /\ LET v == stepValidations[i]
           result == HandwrittenResult(reply)
       IN IF reply.kind = "null"
          THEN \* result is null: reading result.extractedStep throws and the
               \* continuation ends without a state update
               UNCHANGED <<steps, showExplanation>>
          ELSE LET conceptGap == /\ result.errorType = "conceptual"
                                 /\ v.conceptualErrors >= 1
               IN /\ steps' =
                        Append(steps,
                               Step(result,
                                    IF reply.kind = "payload" THEN "oracle"
                                    ELSE "fallback",
                                    conceptGap))
                  /\ showExplanation' =
                        IF conceptGap THEN TRUE ELSE showExplanation
    /\ stepValidations' = RemoveAt(stepValidations, i)
    /\ UNCHANGED question
    /\ UNCHANGED <<examVars, practiceVars>>

\* the judgment service never answers a request: fetch is called without a
\* timeout or an abort signal, so its promise stays pending and the
\* continuation of the handler never runs
JudgeNeverResponds(i) ==
    /\ i \in 1..Len(stepValidations)
    /\ ~stepValidations[i].hung
    /\ stepValidations' = [stepValidations EXCEPT ![i].hung = TRUE]
    /\ UNCHANGED <<question, steps, showExplanation>>
    /\ UNCHANGED <<examVars, practiceVars>>

\* the Reset button: setSteps([])
ResetSteps ==
    /\ steps' = <<>>
    /\ stepValidations' =
          [k \in 1..Len(stepValidations) |->
              [stepValidations[k] EXCEPT !.overtaken = TRUE]]
    /\ UNCHANGED <<question, showExplanation>>
    /\ UNCHANGED <<examVars, practiceVars>>

\* the "Explain Concept" button
ExplainConcept ==
    /\ question # "blank"
    /\ showExplanation' = ~showExplanation
    /\ UNCHANGED <<question, steps, stepValidations>>
    /\ UNCHANGED <<examVars, practiceVars>>

NextWhiteboard ==
    \/ \E text \in QuestionTexts : SetQuestion(text)
    \/ \E step \in StepTexts : handleStepValidation(step)
    \/ \E i \in 1..MaxStepValidations, reply \in JudgeReplies :
          StepValidationReturns(i, reply)
    \/ handleHandwrittenStepSubmit
    \/ \E i \in 1..MaxStepValidations, reply \in JudgeReplies :
          HandwrittenStepReturns(i, reply)
    \/ \E i \in 1..MaxStepValidations : JudgeNeverResponds(i)
    \/ ResetSteps
    \/ ExplainConcept

Init == InitExam /\ InitPractice /\ InitWhiteboard

SpecExam == Init /\ [][NextExam]_vars

SpecPractice == Init /\ [][NextPractice]_vars

SpecWhiteboard == Init /\ [][NextWhiteboard]_vars

\* the interval fires every second for as long as it exists
FairSpecExam == SpecExam /\ WF_vars(Tick)

\* a request the judgment service answers is answered in the end, and the
\* continuation of its handler then runs
FairSpecWhiteboard ==
    /\ SpecWhiteboard
    /\ WF_vars(\E i \in 1..MaxStepValidations, reply \in JudgeReplies :
                  StepValidationReturns(i, reply)
                  \/ HandwrittenStepReturns(i, reply))

\* ========================================================================
\* Properties
\* ========================================================================

\* the session status of the exam: examPhase refined by isPaused
ExamStatus ==
    IF examPhase = "setup" THEN "setup"
    ELSE IF examPhase = "completed" THEN "completed"
    ELSE IF isPaused THEN "paused" ELSE "active"

ExamLog == IF examSession = Null THEN <<>> ELSE Val(examSession).answers

ExamMarks ==
    IF examSession = Null THEN 0
    ELSE Val(examSession).performance.obtainedMarks

IsPrefix(s, t) ==
    /\ Len(s) <= Len(t)
    /\ \A k \in 1..Len(s) : s[k] = t[k]

\* a step inside one exam session: the session object before and after the
\* step carries the same id
SameExamSession ==
    /\ examSession # Null /\ examSession' # Null
    /\ Val(examSession').id = Val(examSession).id

\* C2: the session status only moves setup->active, active<->paused and
\* active->completed, and no operation, the restart button included, moves
\* a completed session to another status.
C2_StatusTransitions ==
    [][ExamStatus' # ExamStatus =>
          <<ExamStatus, ExamStatus'>> \in
              { <<"setup", "active">>, <<"active", "paused">>,
                <<"paused", "active">>, <<"active", "completed">> }]_vars

\* C3: a submit issued while the session is not active (paused, completed
\* or in setup) is rejected: log, marks, current item index and status stay
\* as they were.
C3_SubmitOnlyWhenActive ==
    [][(ExamStatus # "active" /\
        \E a \in ExamAnswers, t \in TimeSamples, rnd \in BOOLEAN :
            ExamSubmitAnswer(a, t, rnd))
       => UNCHANGED <<examSession, currentQuestionIndex, examPhase,
                      isPaused>>]_vars

C19_ScenarioC ==
    [][(examPhase = "exam" /\ examSession # Null /\ ExamLog = <<>>
        /\ timeRemaining > 0 /\ timeRemaining' = 0)
       => /\ examPhase' = "completed"
          /\ examSession' # Null
          /\ Val(examSession').ended
          /\ ExamLog' = <<>>
          /\ ExamMarks' = 0
          /\ Val(examSession').performance.accuracy.n = 0
          /\ Val(examSession').performance.accuracy.d # 0]_vars

\* C19 witness: a session completed by the timer with nothing ever submitted
C19_Witness ==
    /\ examPhase = "completed" /\ timeRemaining = 0 /\ examSession # Null
    /\ Val(examSession).ended
    /\ currentQuestionIndex = 0
    /\ ExamLog = <<>> /\ ExamMarks = 0
    /\ Val(examSession).performance.accuracy = Ratio(0, 1)

\* C20: the local validator is deterministic: in every state in which an
\* answer can be submitted, the correctness it returns for the current item
\* and a given answer is the same whatever the random draw of the
\* invocation.
C20_HeuristicDeterministic ==
    ExamViewRendered =>
        \A a \in ExamAnswers :
            ExamIsCorrect(Val(examSession).questions[currentQuestionIndex + 1],
                          a, TRUE)
            = ExamIsCorrect(Val(examSession).questions[currentQuestionIndex + 1],
                            a, FALSE)

\* C21: the submit that completes an exam session (the submit for its last
\* item) leaves a log with one more entry, the entry of that item, and
\* marks that include the marks obtained for it.
C21_LastSubmitRecorded ==
    [][(/\ examPhase = "exam" /\ examPhase' = "completed"
        /\ \E a \in ExamAnswers, t \in TimeSamples, rnd \in BOOLEAN :
               ExamSubmitAnswer(a, t, rnd))
       => /\ Len(ExamLog') = Len(ExamLog) + 1
          /\ ExamLog'[Len(ExamLog')].questionId = currentQuestionIndex + 1
          /\ ExamMarks' = ExamMarks + ExamLog'[Len(ExamLog')].marksObtained]_vars

\* the statistics a session holds for a topic; a topic without an entry in
\* topicPerformance has none
TopicTotal(session, topic) ==
    IF session.performance.topicPerformance = <<>> THEN 0
    ELSE session.performance.topicPerformance[topic].total

\* C25: every step that records a verdict in the exam log raises the total
\* of the per-topic statistics of the answered item's topic by one.
C25_TopicStatistics ==
    [][(SameExamSession /\ Len(ExamLog') = Len(ExamLog) + 1)
       => LET item == Val(examSession).questions[currentQuestionIndex + 1]
          IN TopicTotal(Val(examSession'), item.topic)
             = TopicTotal(Val(examSession), item.topic) + 1]_vars

PracticeLog ==
    IF practiceSession = Null THEN <<>> ELSE Val(practiceSession).answers

\* C1: whatever the judgment service replies, the continuation of a submit
\* records exactly one verdict for its attempt: the practice log becomes the
\* log the attempt was made on plus one entry, and the whiteboard log grows
\* by one step.
C1_ExactlyOneVerdict ==
    [][/\ \A i \in 1..Len(evaluations), o \in JudgeOutcomes :
            PracticeValidationReturns(i, o)
            => /\ Len(PracticeLog') = Len(evaluations[i].session.answers) + 1
               /\ PracticeLog' # PracticeLog
       /\ \A i \in 1..Len(stepValidations), reply \in JudgeReplies :
            (StepValidationReturns(i, reply)
             \/ HandwrittenStepReturns(i, reply))
            => Len(steps') = Len(steps) + 1]_vars

\* C4: a verdict that arrives after the log was reset while its evaluation
\* was outstanding is discarded: it changes neither the log nor the
\* remediation flag.
C4_LateVerdictDiscarded ==
    [][\A i \in 1..Len(stepValidations), reply \in JudgeReplies :
          (/\ stepValidations[i].overtaken
           /\ (StepValidationReturns(i, reply)
               \/ HandwrittenStepReturns(i, reply)))
          => UNCHANGED <<steps, showExplanation>>]_vars

\* C7: the session log is append-only: no step removes or alters an entry
\* that was recorded (whiteboard steps, exam answers, practice answers).
C7_LogAppendOnly ==
    [][/\ IsPrefix(steps, steps')
       /\ IsPrefix(ExamLog, ExamLog')
       /\ IsPrefix(PracticeLog, PracticeLog')]_vars

Tiers == <<"easy", "medium", "advanced">>
TierIndex(t) == CHOOSE k \in 1..3 : Tiers[k] = t

\* the adapter of the specification: one tier up above 80%, one tier down
\* below 60%, hold otherwise
OneStepAdapt(accuracy, tier) ==
    IF Above(accuracy, 80) /\ tier # "advanced"
    THEN Tiers[TierIndex(tier) + 1]
    ELSE IF Below(accuracy, 60) /\ tier # "easy"
    THEN Tiers[TierIndex(tier) - 1]
    ELSE tier

\* C8: after each recorded verdict the tier moves as the one-step adapter
\* says: up exactly one tier above 80%, down exactly one tier below 60%,
\* unchanged otherwise.
C8_OneTierPerVerdict ==
    [][\A i \in 1..Len(evaluations), o \in JudgeOutcomes \ {"nullPayload"} :
          PracticeValidationReturns(i, o)
          => difficulty' =
                OneStepAdapt(Val(practiceSession').performance.accuracy,
                             difficulty)]_vars

\* C9: the next item is issued at the tier the adapter computed after the
\* verdict for the item before it: the question that arrives carries the
\* difficulty in force.
C9_NextItemAtAdaptedTier ==
    [][\A i \in 1..Len(evaluations) :
          NextQuestionResolve(i)
          => Val(currentQuestion').difficulty = difficulty]_vars

ScenarioAVerdicts ==
    <<"true", "true", "false", "true", "true",
      "true", "true", "true", "true", "true">>

\* first session of the run (it starts at easy), ten answers handed in, one
\* per item, the third judged incorrect and the others correct
ScenarioA ==
    /\ sessionPhase = "completed" /\ practiceSession # Null
    /\ practiceSessionsStarted = 1
    /\ practiceAttempts = SessionLength
    /\ [k \in 1..Len(PracticeLog) |-> PracticeLog[k].isCorrect]
          = ScenarioAVerdicts

\* C10: Scenario A ends with accuracy 90%, the tier is advanced from the
\* first verdict that puts cumulative accuracy above 80% (the first one) to
\* the end, and the remediation flag is never raised.
C10_ScenarioA ==
    ScenarioA
    => LET perf == Val(practiceSession).performance
       IN /\ 100 * perf.accuracy.n = 90 * perf.accuracy.d
          /\ difficulty = "advanced"
          /\ PracticeLog[1].difficulty = "easy"
          /\ \A k \in 2..SessionLength : PracticeLog[k].difficulty = "advanced"
          /\ showExplanation = FALSE

\* C10 witness: Scenario A has been played to its end
C10_Witness == ScenarioA

\* the streak the remediation monitor is to count: a verdict that the
\* judgment service itself classified as conceptual
OracleConceptual(entry) ==
    entry.errorType = "conceptual" /\ entry.confidence = "oracle"

RemediationThreshold == 2

\* C11: in a log that begins with a run of consecutive oracle conceptual
\* verdicts, the remediation trigger has fired exactly once, with the second
\* verdict of the run, and neither before it nor with the third or a later
\* one.
C11_TriggerOncePerStreak ==
    \A k \in 1..Len(steps) :
        (\A j \in 1..k : OracleConceptual(steps[j]))
        => (steps[k].triggered <=> (k = RemediationThreshold))

\* C12: the trigger fires only on an unbroken streak: the verdict it fires
\* with is directly preceded by a conceptual verdict, so two conceptual
\* verdicts separated by a correct or non-conceptual verdict fire nothing.
C12_StreakIsConsecutive ==
    \A k \in 1..Len(steps) :
        steps[k].triggered
        => k >= RemediationThreshold
           /\ steps[k - 1].errorType = "conceptual"

\* C13: only oracle conceptual verdicts count: when the trigger fires, the
\* verdict it fires with and every conceptual verdict recorded before it
\* come from the judgment service, never from the local validator or from
\* an inference.
C13_OnlyOracleConceptualCounts ==
    \A k \in 1..Len(steps) :
        steps[k].triggered
        => \A j \in 1..k :
              steps[j].errorType = "conceptual"
              => steps[j].confidence = "oracle"

\* C14: every verdict that is recorded, in the practice log and in the
\* whiteboard log, has isCorrect equal to true or to false, whatever the
\* judgment service replied.
C14_VerdictIsBoolean ==
    /\ \A k \in 1..Len(PracticeLog) :
          PracticeLog[k].isCorrect \in {"true", "false"}
    /\ \A k \in 1..Len(steps) : steps[k].isCorrect \in {"true", "false"}

\* C15: when the judgment service fails or its reply is not a verdict
\* object, the typed step is recovered by the local validator: the entry
\* that is recorded is the verdict of validateStep, marked heuristic.
C15_FailureRecoveredByHeuristic ==
    [][\A i \in 1..Len(stepValidations), reply \in JudgeReplies :
          (reply.kind # "payload" /\ StepValidationReturns(i, reply))
          => steps' =
                Append(steps,
                       Step(validateStep(stepValidations[i].step,
                                         stepValidations[i].question),
                            "heuristic", FALSE))]_vars

\* an evaluation is outstanding whose request the service will never answer
UnansweredEvaluation ==
    \E i \in 1..Len(stepValidations) : stepValidations[i].hung

\* C16: no evaluation stays outstanding for ever: also when the judgment
\* service never answers, the evaluation returns (a timeout hands it to the
\* local validator), so again and again no unanswered evaluation is pending.
C16_EvaluationReturns == []<>(~UnansweredEvaluation)

\* C17: checking a step shorter than the minimal length records at once the
\* verdict incorrect / syntax of the local validator, and starts no
\* evaluation by the judgment service.
C17_ShortAttemptLocalSyntax ==
    [][handleStepValidation("short")
       => /\ steps' = Append(steps, Step(Verdict("false", "syntax"),
                                        "heuristic", FALSE))
          /\ UNCHANGED stepValidations]_vars

\* the error kinds of the specification; a verdict without an error type
\* is recorded here as "none"
ErrorKinds == {"none", "syntax", "calculation", "conceptual", "unknown"}

\* C18: every entry of the whiteboard log carries an error kind of the
\* closed set none, syntax, calculation, conceptual, unknown.
C18_ErrorKindClosedSet ==
    \A k \in 1..Len(steps) : steps[k].errorType \in ErrorKinds

\* two continuations of submitAnswer that were started on the same issued
\* item: they hold the same session snapshot and the same question
SameIssuedItem(e1, e2) ==
    /\ e1.session = e2.session
    /\ e1.question = e2.question

\* C22: submits are serialized: for one issued item at most one
\* continuation records a verdict and requests the next item, so no two
\* requests for a next item are ever outstanding for the same item.
C22_SubmitSerialized ==
    \A i, j \in 1..Len(evaluations) :
        (/\ i # j
         /\ evaluations[i].pc = "generating"
         /\ evaluations[j].pc = "generating")
        => ~SameIssuedItem(evaluations[i], evaluations[j])

Affirming(text) == text = "correct"

\* C24: when the reply of the judgment service does not parse, the verdict
\* recorded for a typed step is inferred from the text: correct exactly when
\* the text is affirming (a text saying 'incorrect' gives false), and with
\* error kind calculation when the inferred result is negative.
C24_LexicalInference ==
    [][\A i \in 1..MaxStepValidations, reply \in JudgeReplies :
          (reply.kind = "text" /\ StepValidationReturns(i, reply))
          => /\ Len(steps') = Len(steps) + 1
             /\ steps'[Len(steps')].isCorrect =
                    (IF Affirming(reply.text) THEN "true" ELSE "false")
             /\ steps'[Len(steps')].isCorrect = "false"
                    => steps'[Len(steps')].errorType = "calculation"]_vars

\* t1 + ... + tn of a log
RECURSIVE SumTimeSpent(_)
SumTimeSpent(log) ==
    IF log = <<>> THEN 0
    ELSE log[1].timeSpent + SumTimeSpent(Tail(log))

\* the ratio avg is the mean of the elapsed times of a log that is not empty
IsMeanOf(avg, log) == avg.n * Len(log) = SumTimeSpent(log) * avg.d

\* C26: in a session with recorded attempts the reported average time is
\* the mean of their elapsed times, (t1 + ... + tn) / n.
C26_AverageIsRunningMean ==
    /\ (practiceSession # Null /\ PracticeLog # <<>>)
          => IsMeanOf(Val(practiceSession).performance.averageTime, PracticeLog)
    /\ (examSession # Null /\ ExamLog # <<>>)
          => IsMeanOf(Val(examSession).performance.averageTime, ExamLog)

\* the number of recorded answers judged correct
CorrectInLog(log) ==
    Cardinality({k \in 1..Len(log) : log[k].isCorrect = "true"})

\* C27: the counters of the practice session agree with its log:
\* totalQuestions is the number of recorded answers, correctAnswers the
\* number of those judged correct, the difficulty progression has one entry
\* per answer; the log never holds more than 10 answers, and the session is
\* completed exactly when it holds the 10th.
C27_CountersAgreeWithLog ==
    practiceSession # Null =>
        LET session == Val(practiceSession)
        IN /\ session.performance.totalQuestions = Len(session.answers)
           /\ session.performance.correctAnswers = CorrectInLog(session.answers)
           /\ Len(session.performance.difficultyProgression)
                 = Len(session.answers)
           /\ Len(session.answers) <= SessionLength
           /\ (sessionPhase = "completed")
                 <=> (Len(session.answers) = SessionLength)

\* C28: the difficulty stored with every recorded answer of the practice
\* session, and the entry of the difficulty progression for it, is the
\* difficulty of the question that was issued and answered.
C28_RecordedDifficultyIsItemsTier ==
    practiceSession # Null =>
        LET session == Val(practiceSession)
        IN \A k \in 1..Len(session.answers) :
              /\ session.answers[k].difficulty = session.questions[k].difficulty
              /\ session.performance.difficultyProgression[k]
                    = session.questions[k].difficulty

\* C29: a session started from setup begins clean: the exam that leaves
\* setup is not paused, shows its first item and has its full time budget,
\* and the practice session that leaves setup requests its first item at
\* the tier easy.
C29_CleanStart ==
    /\ [][(examPhase = "setup" /\ examPhase' = "exam")
            => /\ ~isPaused'
               /\ currentQuestionIndex' = 0
               /\ examSession' # Null
               /\ timeRemaining'
                     = ExamTypeById(Val(examSession').examType).duration]_vars
    /\ [][(sessionPhase = "setup" /\ sessionPhase' = "practicing")
            => /\ Len(firstQuestions') = Len(firstQuestions) + 1
               /\ firstQuestions'[Len(firstQuestions')].difficulty
                     = "easy"]_vars

\* C30: in every state of an exam session the marks obtained lie between 0
\* and the total marks of the exam, and the accuracy between 0 and 100
\* percent.
C30_MarksWithinTotal ==
    examSession # Null =>
        LET perf == Val(examSession).performance
        IN /\ 0 <= perf.obtainedMarks
           /\ perf.obtainedMarks <= perf.totalMarks
           /\ 0 <= perf.accuracy.n
           /\ perf.accuracy.n <= perf.accuracy.d

====
